---- MODULE Spec2Model ----
(***************************************************************************)
(* BtcVerifier: a Stylus contract with one public method, hash_btc_header, *)
(* which hex-decodes its argument, applies SHA-256 twice and returns the   *)
(* digest as a lowercase hex string, or Err(empty payload) when the        *)
(* argument does not decode.                                               *)
(*                                                                         *)
(* Strings are sequences of bytes (Rust's String is UTF-8, hex works on    *)
(* its bytes); a character is its ASCII code.  A 32-bit word is a pair     *)
(* <<hi, lo>> of 16-bit halves, because TLC's integers are 32-bit signed.  *)
(***************************************************************************)
EXTENDS Integers, Sequences, FiniteSets, TLC

\* ------------------------------------------------------------------ bounds
\* Longest enumerated argument, in characters.
MaxLen == 2
\* Longest enumerated byte buffer of the codec specification.
MaxBytes == 2

\* ------------------------------------------------------ Result<T, E> values
Ok(v) == [tag |-> "Ok", val |-> v]
Err(e) == [tag |-> "Err", val |-> e]

\* Option<T>: a local the call never assigned (it returned early) is None.
None == <<>>
Some(v) == <<v>>

\* ------------------------------------------------- 32-bit word arithmetic
\* x XOR y XOR z on 16-bit values, bit by bit.
RECURSIVE Xor16(_, _, _)
Xor16(x, y, z) ==
  IF x = 0 /\ y = 0 /\ z = 0 THEN 0
  ELSE ((x + y + z) % 2) + 2 * Xor16(x \div 2, y \div 2, z \div 2)

\* (x AND y) XOR (NOT x AND z): the bit of y where x has 1, of z where x has 0.
RECURSIVE Ch16(_, _, _)
Ch16(x, y, z) ==
  IF x = 0 /\ z = 0 THEN 0
  ELSE (IF x % 2 = 1 THEN y % 2 ELSE z % 2) + 2 * Ch16(x \div 2, y \div 2, z \div 2)

\* (x AND y) XOR (x AND z) XOR (y AND z): the majority bit.
RECURSIVE Maj16(_, _, _)
Maj16(x, y, z) ==
  IF x + y + z = 0 THEN 0
  ELSE (((x % 2) + (y % 2) + (z % 2)) \div 2) + 2 * Maj16(x \div 2, y \div 2, z \div 2)

Xor3(a, b, c) == <<Xor16(a[1], b[1], c[1]), Xor16(a[2], b[2], c[2])>>
Ch(a, b, c) == <<Ch16(a[1], b[1], c[1]), Ch16(a[2], b[2], c[2])>>
Maj(a, b, c) == <<Maj16(a[1], b[1], c[1]), Maj16(a[2], b[2], c[2])>>

\* u32::wrapping_add
Add(a, b) ==
  LET lo == a[2] + b[2]
      hi == a[1] + b[1] + (lo \div 65536)
  IN  <<hi % 65536, lo % 65536>>

\* u32::rotate_right(n), 0 < n < 32
RotR(w, n) ==
  LET v == IF n >= 16 THEN <<w[2], w[1]>> ELSE w
      k == n % 16
  IN  <<(v[1] \div (2 ^ k)) + (v[2] % (2 ^ k)) * (2 ^ (16 - k)),
        (v[2] \div (2 ^ k)) + (v[1] % (2 ^ k)) * (2 ^ (16 - k))>>

\* w >> n, 0 < n < 16
ShR(w, n) ==
  <<w[1] \div (2 ^ n), (w[2] \div (2 ^ n)) + (w[1] % (2 ^ n)) * (2 ^ (16 - n))>>

\* ------------------------------------------------------- SHA-256 (FIPS 180-4)
BigSigma0(x) == Xor3(RotR(x, 2), RotR(x, 13), RotR(x, 22))
BigSigma1(x) == Xor3(RotR(x, 6), RotR(x, 11), RotR(x, 25))
SmallSigma0(x) == Xor3(RotR(x, 7), RotR(x, 18), ShR(x, 3))
SmallSigma1(x) == Xor3(RotR(x, 17), RotR(x, 19), ShR(x, 10))

\* The round constants K[0..63].
K32 == <<
      <<17034, 12184>>, <<28983, 17553>>, <<46528, 64463>>, <<59829, 56229>>,
      <<14678, 49755>>, <<23025, 4593>>, <<37439, 33444>>, <<43804, 24277>>,
      <<55303, 43672>>, <<4739, 23297>>, <<9265, 34238>>, <<21772, 32195>>,
      <<29374, 23924>>, <<32990, 45566>>, <<39900, 1703>>, <<49563, 61812>>,
      <<58523, 27073>>, <<61374, 18310>>, <<4033, 40390>>, <<9228, 41420>>,
      <<11753, 11375>>, <<19060, 33962>>, <<23728, 43484>>, <<30457, 35034>>,
      <<38974, 20818>>, <<43057, 50797>>, <<45059, 10184>>, <<48985, 32711>>,
      <<50912, 3059>>, <<54695, 37191>>, <<1738, 25425>>, <<5161, 10599>>,
      <<10167, 2693>>, <<11803, 8504>>, <<19756, 28156>>, <<21304, 3347>>,
      <<25866, 29524>>, <<30314, 2747>>, <<33218, 51502>>, <<37490, 11397>>,
      <<41663, 59553>>, <<43034, 26187>>, <<49739, 35696>>, <<51052, 20899>>,
      <<53650, 59417>>, <<54937, 1572>>, <<62478, 13701>>, <<4202, 41072>>,
      <<6564, 49430>>, <<7735, 27656>>, <<10056, 30540>>, <<13488, 48309>>,
      <<14620, 3251>>, <<20184, 43594>>, <<23452, 51791>>, <<26670, 28659>>,
      <<29839, 33518>>, <<30885, 25455>>, <<33992, 30740>>, <<36039, 520>>,
      <<37054, 65530>>, <<42064, 27883>>, <<48889, 41975>>, <<50801, 30962>>
  >>

\* The initial hash value H(0).
H256_INIT == <<
      <<27145, 58983>>, <<47975, 44677>>, <<15470, 62322>>, <<42319, 62778>>,
      <<20750, 21119>>, <<39685, 26764>>, <<8067, 55723>>, <<23520, 52505>>
  >>

\* The message schedule W[1..64] of one block, from its first 16 words.
RECURSIVE Schedule(_)
Schedule(W) ==
  IF Len(W) = 64 THEN W
  ELSE LET t == Len(W) + 1
           w == Add(Add(SmallSigma1(W[t - 2]), W[t - 7]),
                    Add(SmallSigma0(W[t - 15]), W[t - 16]))
       IN  Schedule(Append(W, w))

\* One round on the working variables v = <<a, b, c, d, e, f, g, h>>.
Round(v, w, k) ==
  LET T1 == Add(Add(Add(v[8], BigSigma1(v[5])), Add(Ch(v[5], v[6], v[7]), k)), w)
      T2 == Add(BigSigma0(v[1]), Maj(v[1], v[2], v[3]))
  IN  <<Add(T1, T2), v[1], v[2], v[3], Add(v[4], T1), v[5], v[6], v[7]>>

\* The 64 rounds; st = <<t, v>> is the loop's counter and working variables.
RECURSIVE Rounds(_, _)
Rounds(st, W) ==
  IF st[1] > 64 THEN st[2]
  ELSE Rounds(<<st[1] + 1, Round(st[2], W[st[1]], K32[st[1]])>>, W)

\* compress256 on one 64-byte block.
Compress(state, block) ==
  LET W0 == [i \in 1..16 |-> <<block[4 * i - 3] * 256 + block[4 * i - 2],
                               block[4 * i - 1] * 256 + block[4 * i]>>]
      v  == Rounds(<<1, state>>, Schedule(W0))
  IN  [i \in 1..8 |-> Add(state[i], v[i])]

\* compress256 on every 64-byte block of blocks, in order.
RECURSIVE CompressAll(_, _)
CompressAll(state, blocks) ==
  IF Len(blocks) < 64 THEN state
  ELSE CompressAll(Compress(state, SubSeq(blocks, 1, 64)),
                   SubSeq(blocks, 65, Len(blocks)))

\* Sha256::new(): the initial state, nothing buffered, no byte seen.
Sha256_new == [state |-> H256_INIT, buffer |-> <<>>, len |-> 0]

\* Digest::update: full blocks are compressed, the rest stays buffered.
update(hasher, data) ==
  LET all  == hasher.buffer \o data
      full == 64 * (Len(all) \div 64)
  IN  [state  |-> CompressAll(hasher.state, SubSeq(all, 1, full)),
       buffer |-> SubSeq(all, full + 1, Len(all)),
       len    |-> hasher.len + Len(data)]

\* Digest::finalize: 0x80, zeros up to 56 mod 64, the bit length as a
\* big-endian u64 (the upper four bytes are 0 below 2^28 bytes), then the
\* state's eight words, big-endian.
finalize(hasher) ==
  LET n    == Len(hasher.buffer)
      z    == (119 - n) % 64
      bits == 8 * hasher.len
      tail == hasher.buffer \o <<128>> \o [i \in 1..z |-> 0] \o
              <<0, 0, 0, 0, (bits \div 16777216) % 256, (bits \div 65536) % 256,
                (bits \div 256) % 256, bits % 256>>
      s    == CompressAll(hasher.state, tail)
  IN  [i \in 1..32 |->
         LET w == s[((i - 1) \div 4) + 1]
             j == (i - 1) % 4
         IN  IF j = 0 THEN w[1] \div 256
             ELSE IF j = 1 THEN w[1] % 256
             ELSE IF j = 2 THEN w[2] \div 256
             ELSE w[2] % 256]

\* ---------------------------------------------------------------- hex codec
\* hex's val(c, idx): the value of one hex digit, or -1 where the crate
\* returns InvalidHexCharacter.
val(c) ==
  IF c \in 65..70 THEN c - 65 + 10
  ELSE IF c \in 97..102 THEN c - 97 + 10
  ELSE IF c \in 48..57 THEN c - 48
  ELSE -1

\* hex::decode: OddLength first, then the first invalid character (with its
\* 0-based index), else one byte per pair, high digit first.
hex_decode(data) ==
  IF Len(data) % 2 # 0 THEN Err(<<"OddLength">>)
  ELSE LET bad == {i \in 1..Len(data) : val(data[i]) = -1}
       IN  IF bad # {}
           THEN LET i == CHOOSE j \in bad : \A k \in bad : j <= k
                IN  Err(<<"InvalidHexCharacter", data[i], i - 1>>)
           ELSE Ok([i \in 1..(Len(data) \div 2) |->
                      val(data[2 * i - 1]) * 16 + val(data[2 * i])])

\* hex's HEX_CHARS_LOWER, b"0123456789abcdef"
HEX_CHARS_LOWER == <<48, 49, 50, 51, 52, 53, 54, 55, 56, 57, 97, 98, 99, 100, 101, 102>>

\* Mutant of hex_encode: the low digit of each byte is written first.
hex_encode_low_first(data) ==
  [i \in 1..(2 * Len(data)) |->
     LET byte == data[(i + 1) \div 2]
     IN  IF i % 2 = 1 THEN HEX_CHARS_LOWER[(byte % 16) + 1]
         ELSE HEX_CHARS_LOWER[(byte \div 16) + 1]]

\* hex::encode: two characters per byte, high digit first.
hex_encode(data) ==
  [i \in 1..(2 * Len(data)) |->
     LET byte == data[(i + 1) \div 2]
     IN  IF i % 2 = 1 THEN HEX_CHARS_LOWER[(byte \div 16) + 1]
         ELSE HEX_CHARS_LOWER[(byte % 16) + 1]]

\* ------------------------------------------------------------ the contract
\* Mutant of map_err: the payload tells the two causes apart.
map_err_kind(e) == IF e[1] = "OddLength" THEN <<1>> ELSE <<2>>

\* The closure of map_err: whatever hex reports, the payload is Vec::new().
map_err(e) == <<>>

\* Mutant of hash_btc_header: the first digest is returned, the second
\* hash is not taken.
hash_btc_header_single_sha(self, header_hex) ==
  LET decoded == hex_decode(header_hex)
  IN  IF decoded.tag = "Err"
      THEN [result |-> Err(map_err(decoded.val)),
            bytes |-> None, hash1 |-> None, hash2 |-> None]
      ELSE LET bytes   == decoded.val
               hasher1 == update(Sha256_new, bytes)
               hash1   == finalize(hasher1)
               hasher2 == update(Sha256_new, hash1)
               hash2   == finalize(hasher2)
           IN  [result |-> Ok(hex_encode(hash1)),
                bytes |-> Some(bytes), hash1 |-> Some(hash1), hash2 |-> Some(hash2)]

\* Mutant of hash_btc_header: a decode failure is taken as no bytes
\* (unwrap_or_default in place of map_err and ?).
hash_btc_header_unwrap_or_default(self, header_hex) ==
  LET decoded == hex_decode(header_hex)
  IN  IF FALSE
      THEN [result |-> Err(map_err(decoded.val)),
            bytes |-> None, hash1 |-> None, hash2 |-> None]
      ELSE LET bytes   == IF decoded.tag = "Err" THEN <<>> ELSE decoded.val
               hasher1 == update(Sha256_new, bytes)
               hash1   == finalize(hasher1)
               hasher2 == update(Sha256_new, hash1)
               hash2   == finalize(hasher2)
           IN  [result |-> Ok(hex_encode(hash2)),
                bytes |-> Some(bytes), hash1 |-> Some(hash1), hash2 |-> Some(hash2)]

\* Mutant of hash_btc_header: the digest is written with hex::encode_upper.
hash_btc_header_encode_upper(self, header_hex) ==
  LET decoded == hex_decode(header_hex)
  IN  IF decoded.tag = "Err"
      THEN [result |-> Err(map_err(decoded.val)),
            bytes |-> None, hash1 |-> None, hash2 |-> None]
      ELSE LET bytes   == decoded.val
               hasher1 == update(Sha256_new, bytes)
               hash1   == finalize(hasher1)
               hasher2 == update(Sha256_new, hash1)
               hash2   == finalize(hasher2)
           IN  [result |-> Ok([i \in 1..64 |-> LET c == hex_encode(hash2)[i]
                                              IN  IF c \in 97..102 THEN c - 32 ELSE c]),
                bytes |-> Some(bytes), hash1 |-> Some(hash1), hash2 |-> Some(hash2)]

\* Mutant of hash_btc_header: the first hasher is fed the argument's own
\* characters, not the decoded bytes.
hash_btc_header_raw_text(self, header_hex) ==
  LET decoded == hex_decode(header_hex)
  IN  IF decoded.tag = "Err"
      THEN [result |-> Err(map_err(decoded.val)),
            bytes |-> None, hash1 |-> None, hash2 |-> None]
      ELSE LET bytes   == decoded.val
               hasher1 == update(Sha256_new, header_hex)
               hash1   == finalize(hasher1)
               hasher2 == update(Sha256_new, hash1)
               hash2   == finalize(hasher2)
           IN  [result |-> Ok(hex_encode(hash2)),
                bytes |-> Some(bytes), hash1 |-> Some(hash1), hash2 |-> Some(hash2)]

\* Mutant of hash_btc_header: the instance is mixed into the first hash.
hash_btc_header_salted(self, header_hex) ==
  LET decoded == hex_decode(header_hex)
  IN  IF decoded.tag = "Err"
      THEN [result |-> Err(map_err(decoded.val)),
            bytes |-> None, hash1 |-> None, hash2 |-> None]
      ELSE LET bytes   == decoded.val
               hasher1 == update(update(Sha256_new, IF self = "A" THEN <<>> ELSE <<66>>), bytes)
               hash1   == finalize(hasher1)
               hasher2 == update(Sha256_new, hash1)
               hash2   == finalize(hasher2)
           IN  [result |-> Ok(hex_encode(hash2)),
                bytes |-> Some(bytes), hash1 |-> Some(hash1), hash2 |-> Some(hash2)]

\* Mutant of hash_btc_header: an empty argument is refused.
hash_btc_header_rejects_empty(self, header_hex) ==
  LET decoded == hex_decode(header_hex)
  IN  IF decoded.tag = "Err" \/ Len(header_hex) = 0
      THEN [result |-> Err(<<>>),
            bytes |-> None, hash1 |-> None, hash2 |-> None]
      ELSE LET bytes   == decoded.val
               hasher1 == update(Sha256_new, bytes)
               hash1   == finalize(hasher1)
               hasher2 == update(Sha256_new, hash1)
               hash2   == finalize(hasher2)
           IN  [result |-> Ok(hex_encode(hash2)),
                bytes |-> Some(bytes), hash1 |-> Some(hash1), hash2 |-> Some(hash2)]

\* Mutant of hash_btc_header: only an 80-byte header is accepted.
hash_btc_header_80_bytes(self, header_hex) ==
  LET decoded == hex_decode(header_hex)
  IN  IF decoded.tag = "Err" \/ Len(decoded.val) # 80
      THEN [result |-> Err(<<>>),
            bytes |-> None, hash1 |-> None, hash2 |-> None]
      ELSE LET bytes   == decoded.val
               hasher1 == update(Sha256_new, bytes)
               hash1   == finalize(hasher1)
               hasher2 == update(Sha256_new, hash1)
               hash2   == finalize(hasher2)
           IN  [result |-> Ok(hex_encode(hash2)),
                bytes |-> Some(bytes), hash1 |-> Some(hash1), hash2 |-> Some(hash2)]

\* Mutant of hash_btc_header: the second hasher is fed the hex text of the
\* first digest, not its 32 bytes.
hash_btc_header_hex_text(self, header_hex) ==
  LET decoded == hex_decode(header_hex)
  IN  IF decoded.tag = "Err"
      THEN [result |-> Err(map_err(decoded.val)),
            bytes |-> None, hash1 |-> None, hash2 |-> None]
      ELSE LET bytes   == decoded.val
               hasher1 == update(Sha256_new, bytes)
               hash1   == finalize(hasher1)
               hasher2 == update(Sha256_new, hex_encode(hash1))
               hash2   == finalize(hasher2)
           IN  [result |-> Ok(hex_encode(hash2)),
                bytes |-> Some(bytes), hash1 |-> Some(hash1), hash2 |-> Some(hash2)]

\* BtcVerifier::hash_btc_header(&self, header_hex): the returned Result and
\* the locals of the call.
hash_btc_header(self, header_hex) ==
  LET decoded == hex_decode(header_hex)
  IN  IF decoded.tag = "Err"
      THEN [result |-> Err(map_err(decoded.val)),
            bytes |-> None, hash1 |-> None, hash2 |-> None]
      ELSE LET bytes   == decoded.val
               hasher1 == update(Sha256_new, bytes)
               hash1   == finalize(hasher1)
               hasher2 == update(Sha256_new, hash1)
               hash2   == finalize(hasher2)
           IN  [result |-> Ok(hex_encode(hash2)),
                bytes |-> Some(bytes), hash1 |-> Some(hash1), hash2 |-> Some(hash2)]

\* ---------------------------------------------------------------- arguments
\* "A" (a hex digit) and "z" (no hex digit).
Alphabet == {65, 122}

\* "68656c6c6f", the argument of test_double_sha256.
Hello == <<54, 56, 54, 53, 54, 99, 54, 99, 54, 102>>
\* "68656C6C6F"
HelloUpper == <<54, 56, 54, 53, 54, 67, 54, 67, 54, 70>>
\* "68656C6c6F"
HelloMixed == <<54, 56, 54, 53, 54, 67, 54, 99, 54, 70>>
\* "abc"
Abc == <<97, 98, 99>>
\* The 160 characters the client script sends, an 80-byte block header:
\* "0200000000000000000000000000000000000000000000000000000000000000000000003ba3edfd
\*  7a7b12b27ac72c3e67768f617fc81bc3888a51323a9fb8aa4b1e5e4a29ab5f49ffff001d1dac2b7c"
GenesisHeader == <<
     48, 50, 48, 48, 48, 48, 48, 48, 48, 48, 48, 48, 48, 48, 48, 48, 48, 48, 48, 48, 48,
     48, 48, 48, 48, 48, 48, 48, 48, 48, 48, 48, 48, 48, 48, 48, 48, 48, 48, 48, 48, 48,
     48, 48, 48, 48, 48, 48, 48, 48, 48, 48, 48, 48, 48, 48, 48, 48, 48, 48, 48, 48, 48,
     48, 48, 48, 48, 48, 48, 48, 48, 48, 51, 98, 97, 51, 101, 100, 102, 100, 55, 97, 55,
     98, 49, 50, 98, 50, 55, 97, 99, 55, 50, 99, 51, 101, 54, 55, 55, 54, 56, 102, 54,
     49, 55, 102, 99, 56, 49, 98, 99, 51, 56, 56, 56, 97, 53, 49, 51, 50, 51, 97, 57,
     102, 98, 56, 97, 97, 52, 98, 49, 101, 53, 101, 52, 97, 50, 57, 97, 98, 53, 102, 52,
     57, 102, 102, 102, 102, 48, 48, 49, 100, 49, 100, 97, 99, 50, 98, 55, 99
  >>

\* "9595c9df90075148eb06860365df33584b75bff782a510c6cd4883a419833d50", the
\* string test_double_sha256 expects for Hello.
ExpectedHello == <<
     57, 53, 57, 53, 99, 57, 100, 102, 57, 48, 48, 55, 53, 49, 52, 56, 101, 98, 48, 54,
     56, 54, 48, 51, 54, 53, 100, 102, 51, 51, 53, 56, 52, 98, 55, 53, 98, 102, 102, 55,
     56, 50, 97, 53, 49, 48, 99, 54, 99, 100, 52, 56, 56, 51, 97, 52, 49, 57, 56, 51, 51,
     100, 53, 48
  >>

Inputs ==
  UNION {[1..k -> Alphabet] : k \in 0..MaxLen}
    \cup {Hello, HelloUpper, HelloMixed, Abc, GenesisHeader}

\* The BtcVerifier values a call can be made on (the struct has no field).
Instances == {"A", "B"}

\* Byte values at the edges of the two hex digits.
ByteSamples == {0, 9, 10, 15, 16, 159, 160, 255}

\* Every buffer of one byte, and the buffers of at most MaxBytes sample bytes.
ByteBuffers ==
  UNION {[1..k -> ByteSamples] : k \in 0..MaxBytes} \cup {<<x>> : x \in 0..255}

\* -------------------------------------------------------------------- state
VARIABLES
  call,    \* the call being made: [self, header_hex]
  pc,      \* "called": hash_btc_header is about to run; "returned": it has
  frame,   \* what the call returned, and its locals
  first,   \* <<>>, or <<the first call made: its instance, argument and result>>
  codec    \* a byte buffer taken through hex::encode and hex::decode

vars == <<call, pc, frame, first, codec>>

\* Before the call has run: no local, and a placeholder for the result.
NoFrame == [result |-> Err(<<>>), bytes |-> None, hash1 |-> None, hash2 |-> None]
CodecIdle == [pc |-> "idle", b |-> <<>>, text |-> <<>>, back |-> Err(<<>>)]

\* The first call is made on instance "A" (the instances are interchangeable:
\* the struct has no field); every later call is made on either.
Init ==
  /\ call \in [self : {"A"}, header_hex : Inputs]
  /\ pc = "called"
  /\ frame = NoFrame
  /\ first = <<>>
  /\ codec = CodecIdle

\* The contract runs hash_btc_header on the call and returns.
Call ==
  /\ pc = "called"
  /\ frame' = hash_btc_header(call.self, call.header_hex)
  /\ pc' = "returned"
  /\ first' = IF first = <<>>
              THEN <<[self |-> call.self, header_hex |-> call.header_hex,
                      result |-> frame'.result]>>
              ELSE first
  /\ UNCHANGED <<call, codec>>

\* A client makes the next call, on any instance, with any argument.
Request(s, h) ==
  /\ pc = "returned"
  /\ call' = [self |-> s, header_hex |-> h]
  /\ pc' = "called"
  /\ frame' = NoFrame
  /\ UNCHANGED <<first, codec>>

Next ==
  \/ Call
  \/ \E s \in Instances, h \in Inputs : Request(s, h)

Spec == Init /\ [][Next]_vars

\* The hex codec alone: a byte buffer is encoded, and the text decoded.
InitCodec ==
  /\ codec \in {[pc |-> "start", b |-> b, text |-> <<>>, back |-> Err(<<>>)] :
                  b \in ByteBuffers}
  /\ call = [self |-> "A", header_hex |-> <<>>]
  /\ pc = "idle"
  /\ frame = NoFrame
  /\ first = <<>>

Encode ==
  /\ codec.pc = "start"
  /\ codec' = [codec EXCEPT !.pc = "encoded", !.text = hex_encode(codec.b)]
  /\ UNCHANGED <<call, pc, frame, first>>

Decode ==
  /\ codec.pc = "encoded"
  /\ codec' = [codec EXCEPT !.pc = "decoded", !.back = hex_decode(codec.text)]
  /\ UNCHANGED <<call, pc, frame, first>>

NextCodec == Encode \/ Decode

SpecCodec == InitCodec /\ [][NextCodec]_vars

\* ------------------------------------------------------------------- claims
Returned == pc = "returned"

\* The character classes and the validity of an argument, as the
\* specification words them.
LowerHexDigits == (48..57) \cup (97..102)
HexDigits == LowerHexDigits \cup (65..70)
ValidHex(str) == Len(str) % 2 = 0 /\ \A i \in 1..Len(str) : str[i] \in HexDigits

\* str with every upper-case hex letter in lower case.
Lower(str) == [i \in 1..Len(str) |-> IF str[i] \in 65..70 THEN str[i] + 32 ELSE str[i]]

\* The value of a lower-case hex digit.
DigitValue(c) == IF c \in 48..57 THEN c - 48 ELSE c - 87

\* "5df6e0e2761359d30a8275058e299fcc0381534545f55cf43e41983f5d4c9456",
\* hexEncode(SHA256(SHA256(""))).
EmptyDigest == <<
     53, 100, 102, 54, 101, 48, 101, 50, 55, 54, 49, 51, 53, 57, 100, 51, 48, 97, 56, 50,
     55, 53, 48, 53, 56, 101, 50, 57, 57, 102, 99, 99, 48, 51, 56, 49, 53, 51, 52, 53,
     52, 53, 102, 53, 53, 99, 102, 52, 51, 101, 52, 49, 57, 56, 51, 102, 53, 100, 52, 99,
     57, 52, 53, 54
  >>

\* SHA256("hello"), the 32 bytes 2cf24dba...938b9824.
HelloSha256 == <<
     44, 242, 77, 186, 95, 176, 163, 14, 38, 232, 59, 42, 197, 185, 226, 158, 27, 22, 30,
     92, 31, 167, 66, 94, 115, 4, 51, 98, 147, 139, 152, 36
  >>

\* "719d7cdbdde2be068e086616db3aa3f420244f8266023c5b4cf0484664dc3cdc",
\* hexEncode(SHA256(SHA256(the 80 bytes of GenesisHeader))).
GenesisDigest == <<
     55, 49, 57, 100, 55, 99, 100, 98, 100, 100, 101, 50, 98, 101, 48, 54, 56, 101, 48,
     56, 54, 54, 49, 54, 100, 98, 51, 97, 97, 51, 102, 52, 50, 48, 50, 52, 52, 102, 56,
     50, 54, 54, 48, 50, 51, 99, 53, 98, 52, 99, 102, 48, 52, 56, 52, 54, 54, 52, 100,
     99, 51, 99, 100, 99
  >>

\* C1: a call with "68656c6c6f" returns Ok with exactly
\* "9595c9df90075148eb06860365df33584b75bff782a510c6cd4883a419833d50".
C1_KnownVector ==
  (Returned /\ call.header_hex = Hello) => frame.result = Ok(ExpectedHello)

C1_Witness ==
  Returned /\ call.header_hex = Hello /\ frame.result.tag = "Ok"

\* C2: an argument of odd length or with a character outside [0-9a-fA-F]
\* makes the call return Err, with no digest and no partial output: none of
\* the call's locals was produced.
C2_MalformedFails ==
  (Returned /\ ~ValidHex(call.header_hex)) =>
     /\ frame.result.tag = "Err"
     /\ frame.bytes = None /\ frame.hash1 = None /\ frame.hash2 = None

\* "abc" (odd length) was refused by the first call, "zz" by this one.
C2_Witness ==
  /\ Returned
  /\ call.header_hex = <<122, 122>> /\ frame.result.tag = "Err"
  /\ first # <<>> /\ first[1].header_hex = Abc /\ first[1].result.tag = "Err"

\* C3: every Ok result is 64 characters, each in [0-9a-f].
C3_DigestShape ==
  (Returned /\ frame.result.tag = "Ok") =>
     /\ Len(frame.result.val) = 64
     /\ \A i \in 1..64 : frame.result.val[i] \in LowerHexDigits

\* An upper-case argument of 10 characters, after one of 160.
C3_Witness ==
  /\ Returned /\ frame.result.tag = "Ok"
  /\ call.header_hex = HelloUpper
  /\ first # <<>> /\ first[1].header_hex = GenesisHeader /\ first[1].result.tag = "Ok"

\* C4: two valid arguments that differ only in letter case get the same Ok
\* result.
C4_CaseInsensitive ==
  (/\ Returned /\ first # <<>>
   /\ ValidHex(call.header_hex)
   /\ Lower(call.header_hex) = Lower(first[1].header_hex)) =>
     /\ frame.result.tag = "Ok"
     /\ frame.result = first[1].result

C4_Witness ==
  /\ Returned /\ first # <<>>
  /\ first[1].header_hex = Hello /\ call.header_hex = HelloMixed
  /\ frame.result.tag = "Ok" /\ frame.result = first[1].result

C6_EmptyInput ==
  (Returned /\ call.header_hex = <<>>) =>
     frame.result = Ok(EmptyDigest) /\ frame.bytes = Some(<<>>)

C6_Witness ==
  Returned /\ call.header_hex = <<>> /\ frame.result.tag = "Ok"

\* C7: hex::encode writes two lower-case digits per byte, the high digit
\* first, and hex::decode of that text gives the bytes back.
C7_CodecRoundTrip ==
  /\ codec.pc \in {"encoded", "decoded"} =>
       /\ Len(codec.text) = 2 * Len(codec.b)
       /\ \A i \in 1..Len(codec.b) :
            /\ codec.text[2 * i - 1] \in LowerHexDigits
            /\ codec.text[2 * i] \in LowerHexDigits
            /\ DigitValue(codec.text[2 * i - 1]) * 16 + DigitValue(codec.text[2 * i])
                 = codec.b[i]
  /\ codec.pc = "decoded" => codec.back = Ok(codec.b)

C7_Witness ==
  codec.pc = "decoded" /\ codec.b = <<159, 10>> /\ codec.back = Ok(<<159, 10>>)

\* C8: every failure is Err with an empty payload, so an odd length and a
\* character that is no hex digit give equal results.
C8_OneFailure ==
  (Returned /\ frame.result.tag = "Err") =>
     /\ frame.result.val = <<>>
     /\ (first # <<>> /\ first[1].result.tag = "Err") => frame.result = first[1].result

\* "abc" (odd length) failed first, "zA" (an invalid character) now.
C8_Witness ==
  /\ Returned /\ first # <<>>
  /\ first[1].header_hex = Abc /\ call.header_hex = <<122, 65>>
  /\ frame.result = Err(<<>>) /\ first[1].result = frame.result

\* C9: the call returns Ok exactly when the argument is a valid hex string,
\* whatever its length.
C9_OkIffValidHex ==
  Returned => (frame.result.tag = "Ok" <=> ValidHex(call.header_hex))

\* An 80-byte header now (two blocks for the first hash), after a 5-byte
\* argument: both Ok.
C9_Witness ==
  /\ Returned /\ call.header_hex = GenesisHeader
  /\ frame.result = Ok(GenesisDigest) /\ Len(frame.bytes[1]) = 80
  /\ first # <<>> /\ first[1].header_hex = Hello /\ first[1].result.tag = "Ok"

\* C10: the second SHA-256 is over the 32 raw bytes of the first digest,
\* and the result is the second digest's bytes in order, first byte first:
\* not the byte-reversed text, where that differs.
C10_Pipeline ==
  (Returned /\ frame.result.tag = "Ok") =>
     LET hash1 == frame.hash1[1]
         hash2 == frame.hash2[1]
         text  == frame.result.val
     IN  /\ Len(hash1) = 32
         /\ \A i \in 1..32 : hash1[i] \in 0..255
         /\ hash2 = finalize(update(Sha256_new, hash1))
         /\ Len(text) = 64
         /\ \A i \in 1..32 :
              DigitValue(text[2 * i - 1]) * 16 + DigitValue(text[2 * i]) = hash2[i]
         /\ (\E i \in 1..32 : hash2[i] # hash2[33 - i]) =>
              (\E i \in 1..32 :
                 DigitValue(text[2 * i - 1]) * 16 + DigitValue(text[2 * i]) # hash2[33 - i])

\* The first digest of "68656c6c6f" is SHA256("hello"), and the result is
\* not the byte-reversed text.
C10_Witness ==
  /\ Returned /\ call.header_hex = Hello /\ frame.result = Ok(ExpectedHello)
  /\ frame.hash1 = Some(HelloSha256)
  /\ \E i \in 1..32 : frame.hash2[1][i] # frame.hash2[1][33 - i]
====
